---- MODULE Spec2Model ----
(***************************************************************************)
(* Model of the google_storage_bucket Ansible module.                      *)
(*                                                                         *)
(* Two variants of the module live in the repository:                      *)
(*   "plugins" : src/plugins/modules/google_storage_bucket.py              *)
(*   "legacy"  : src/google_storage_bucket.py (no versioning_enabled)      *)
(*                                                                         *)
(* A behaviour is a sequence of invocations of run_module with one fixed   *)
(* task specification (params) against one remote bucket.  An invocation   *)
(* is split into steps at its remote calls, so that another actor can act  *)
(* on the bucket between two calls of the same invocation.                 *)
(***************************************************************************)
EXTENDS Integers, Sequences, FiniteSets, TLC

VARIABLES variant, params, bucket, pc, check, result, changedState,
          errorMessage, handle, calls, responses, before, disturbed,
          external, history, runs

vars == <<variant, params, bucket, pc, check, result, changedState,
          errorMessage, handle, calls, responses, before, disturbed,
          external, history, runs>>

\* ---------------------------------------------------------------- bounds
MaxRuns == 2
MaxExternal == 1

\* ------------------------------------------------------------- constants
None == "<None>"
Variants == {"plugins", "legacy"}
BucketName == "b1"
Projects == {None, "my-project"}
States == {"present", "absent"}
\* Two of the four storage classes argument_spec allows: the module only
\* copies and compares them.
StorageClasses == {"STANDARD", "NEARLINE"}
Locations == {"us", "us-central1"}

\* -------------------------------------------------------- remote bucket
NoBucket ==
    [exists |-> FALSE, storage_class |-> "", versioning_enabled |-> FALSE,
     location |-> "", nonempty |-> FALSE]

RemoteStates ==
    {NoBucket} \cup
    [exists : {TRUE}, storage_class : StorageClasses,
     versioning_enabled : BOOLEAN, location : Locations, nonempty : BOOLEAN]

\* ------------------------------------------------------- task parameters
ParamSpace(v) ==
    [name : {BucketName}, project : Projects, state : States,
     storage_class : StorageClasses, location : Locations,
     versioning_enabled : IF v = "plugins" THEN BOOLEAN ELSE {FALSE},
     force : BOOLEAN]

\* ------------------------------------------------------- handler returns
Return(c, m, r) ==
    [pc |-> "return", changedState |-> c, errorMessage |-> m, result |-> r]

Call(f, r) ==
    [pc |-> f, changedState |-> FALSE, errorMessage |-> "", result |-> r]

Raise(e, r) ==
    [pc |-> "raise", changedState |-> FALSE, errorMessage |-> e, result |-> r]

RemoteCall(op, fields) == [op |-> op, fields |-> fields]

Mutating == {"create", "update", "patch", "delete"}

\* What a call on an existing or a missing bucket is answered with.
Found(b) == IF b.exists THEN "ok" ELSE "NotFound"

\* The exception of an update() or patch() call that does not succeed.
Refused(b) == IF b.exists THEN "OtherError" ELSE "NotFound"

\* ------------------------------------------------------------- getBucket
\* The result dictionary getBucket returns once the fetch has answered:
\* b is what the remote system holds under the name.  The absent result
\* has no versioning_enabled key; the legacy variant never has one.
getBucket(v, p, b) ==
    IF b.exists
    THEN IF v = "plugins"
         THEN [name |-> p.name, state |-> "present",
               storage_class |-> b.storage_class,
               versioning_enabled |-> b.versioning_enabled,
               location |-> b.location]
         ELSE [name |-> p.name, state |-> "present",
               storage_class |-> b.storage_class,
               location |-> b.location]
    ELSE [name |-> p.name, state |-> "absent",
          storage_class |-> "", location |-> ""]

\* The dictionary the check-mode branches build from the parameters.
Predicted(v, p) ==
    IF v = "plugins"
    THEN [name |-> p.name, state |-> p.state,
          storage_class |-> p.storage_class, location |-> p.location,
          versioning_enabled |-> p.versioning_enabled]
    ELSE [name |-> p.name, state |-> p.state,
          storage_class |-> p.storage_class, location |-> p.location]

\* --------------------------------------------------------- bucketPresent
\* The value check mode returns as `changed` for an existing bucket.
PreviewChanged(v, p, r) ==
    IF v = "plugins"
    THEN (p.storage_class # r.storage_class)
         /\ (p.versioning_enabled # r.versioning_enabled)
    ELSE FALSE

\* Mutant of Matches: the location is compared as well.
Matches_WithLocation(v, p, r) ==
    /\ r.storage_class = p.storage_class
    /\ v = "plugins" => r.versioning_enabled = p.versioning_enabled
    /\ r.location = p.location

\* Mutant of Matches: the versioning comparison is left out.
Matches_StorageClassOnly(v, p, r) ==
    r.storage_class = p.storage_class

\* The apply-mode test that the existing bucket already matches.
Matches(v, p, r) ==
    IF v = "plugins"
    THEN r.storage_class = p.storage_class
         /\ r.versioning_enabled = p.versioning_enabled
    ELSE ~(p.storage_class # r.storage_class)

\* bucketPresent of the legacy variant.  For an existing bucket check mode
\* returns False whatever the storage class; apply mode calls updateBucket,
\* a name the legacy module never defines (its function is
\* updateBucketStorageClass), so the call raises NameError.
legacyBucketPresent(p, r, chk) ==
    IF r.state = "present"
    THEN IF chk
         THEN Return(FALSE, "", r)
         ELSE IF p.storage_class # r.storage_class
              THEN Raise("NameError", r)
              ELSE Return(FALSE, "", r)
    ELSE IF chk
         THEN Return(TRUE, "", Predicted("legacy", p))
         ELSE Call("createBucket", r)

bucketPresent(v, p, r, chk) ==
    IF v = "legacy"
    THEN legacyBucketPresent(p, r, chk)
    ELSE IF r.state = "present"
    THEN IF chk
         THEN Return(PreviewChanged(v, p, r), "", r)
         ELSE IF Matches(v, p, r)
              THEN Return(FALSE, "", r)
              ELSE Call("updateBucket", r)
    ELSE IF chk
         THEN Return(TRUE, "", Predicted(v, p))
         ELSE Call("createBucket", r)

\* Mutant of bucketAbsent: the check flag is ignored for an existing bucket.
bucketAbsent_IgnoresCheck(v, p, r, chk) ==
    IF r.state = "absent"
    THEN Return(FALSE, "", r)
    ELSE Call("deleteBucket", r)

\* Mutant of bucketAbsent: an already absent bucket is reported as changed.
bucketAbsent_AbsentChanged(v, p, r, chk) ==
    IF r.state = "absent"
    THEN Return(TRUE, "", r)
    ELSE IF chk
         THEN Return(TRUE, "", Predicted(v, p))
         ELSE Call("deleteBucket", r)

\* ---------------------------------------------------------- bucketAbsent
bucketAbsent(v, p, r, chk) ==
    IF r.state = "absent"
    THEN IF chk
         THEN Return(FALSE, "", r)
         ELSE Return(FALSE, "", r)
    ELSE IF chk
         THEN Return(TRUE, "", Predicted(v, p))
         ELSE Call("deleteBucket", r)

\* Mutant of stateMachine: the two handlers are entered under the wrong
\* keys.
stateMachine_Swapped(v, p, r, chk) ==
    IF p.state = "present"
    THEN bucketAbsent(v, p, r, chk)
    ELSE bucketPresent(v, p, r, chk)

\* run_module's dispatch table on params['state'].
stateMachine(v, p, r, chk) ==
    IF p.state = "present"
    THEN bucketPresent(v, p, r, chk)
    ELSE bucketAbsent(v, p, r, chk)

\* The guard both createBucket and updateBucket open with.  AnsibleModule
\* fills every key of argument_spec, so params always has the key.
ProjectMissing(p) == "project" \notin DOMAIN p

\* A Bucket object made by storage_client.bucket(name): no request is sent
\* and no property is loaded.
NewHandle == [storage_class |-> None, versioning_enabled |-> FALSE]

\* The properties a Bucket object holds after a response was loaded.
Loaded(b) ==
    [storage_class |-> b.storage_class,
     versioning_enabled |-> b.versioning_enabled]

\* Mutant of DeleteForce: every delete is forced.
DeleteForce_Always(p) == TRUE

\* The flag deleteBucket passes to the delete call.
DeleteForce(p) == p.force

\* Mutant of DeleteConflict: the refused delete is reported as a change.
DeleteConflict_Changed(r) ==
    Return(TRUE, "Object conflict", [r EXCEPT !.state = "present"])

\* What deleteBucket returns when a plain delete is refused with Conflict.
DeleteConflict(r) ==
    Return(FALSE, "Object conflict", [r EXCEPT !.state = "present"])

\* The properties the update() request carries (the name aside).
UpdatePayload == {"storage_class"}

\* Mutant of UpdatedBucket: the update also moves the bucket to the wanted
\* location.
UpdatedBucket_Relocates(p, b, keep) ==
    [b EXCEPT !.storage_class = p.storage_class,
              !.versioning_enabled = IF keep THEN @ ELSE FALSE,
              !.location = p.location]

\* The bucket the remote system holds after update(): the fields sent are
\* set, location is fixed at creation, and a field the request leaves out
\* is either kept or put back to its default by the remote system.
UpdatedBucket(p, b, keep) ==
    [b EXCEPT !.storage_class = p.storage_class,
              !.versioning_enabled = IF keep THEN @ ELSE FALSE]

\* The dictionary getBucket starts from, also the value of result between
\* invocations.
EmptyResult ==
    [name |-> "", state |-> "", storage_class |-> "", location |-> ""]

\* ------------------------------------------------------------------ Init
Init ==
    /\ variant \in Variants
    /\ params \in ParamSpace(variant)
    /\ bucket \in RemoteStates
    /\ pc = "idle"
    /\ check = FALSE
    /\ result = EmptyResult
    /\ changedState = FALSE
    /\ errorMessage = ""
    /\ handle = NewHandle
    /\ calls = <<>>
    /\ responses = <<>>
    /\ before = NoBucket
    /\ disturbed = FALSE
    /\ external = 0
    /\ history = <<>>
    /\ runs = 0

\* One run of the module starts, in check mode or not.  history keeps the
\* records of the last two finished runs; the older one is dropped here.
Invoke ==
    /\ pc = "idle"
    /\ runs < MaxRuns
    /\ runs' = runs + 1
    /\ \E chk \in BOOLEAN : check' = chk
    /\ pc' = "getBucket"
    /\ before' = bucket
    /\ disturbed' = FALSE
    /\ history' = IF Len(history) > 1 THEN Tail(history) ELSE history
    /\ UNCHANGED <<variant, params, bucket, result, changedState,
                   errorMessage, handle, calls, responses, external>>

\* Takes the step a handler decided on.
Take(d) ==
    /\ pc' = d.pc
    /\ changedState' = d.changedState
    /\ errorMessage' = d.errorMessage
    /\ result' = d.result

\* getBucket's fetch answers (found or NotFound); the handler the dispatch
\* table selected then runs up to its return or its next remote call.
GetBucket ==
    /\ pc = "getBucket"
    /\ calls' = Append(calls, RemoteCall("get_bucket", {}))
    /\ responses' = Append(responses, Found(bucket))
    /\ Take(stateMachine(variant, params,
                         getBucket(variant, params, bucket), check))
    /\ UNCHANGED <<variant, params, bucket, check, handle, before,
                   disturbed, external, history, runs>>

\* Mutant of GetBucketError: any failure of the fetch is taken for
\* NotFound.
GetBucketError_AsAbsent ==
    /\ pc = "getBucket"
    /\ calls' = Append(calls, RemoteCall("get_bucket", {}))
    /\ responses' = Append(responses, "OtherError")
    /\ Take(stateMachine(variant, params,
                         getBucket(variant, params, NoBucket), check))
    /\ UNCHANGED <<variant, params, bucket, check, handle, before,
                   disturbed, external, history, runs>>

\* getBucket's fetch fails with an error other than NotFound: nothing in
\* the module catches it.
GetBucketError ==
    /\ pc = "getBucket"
    /\ calls' = Append(calls, RemoteCall("get_bucket", {}))
    /\ responses' = Append(responses, "OtherError")
    /\ Take(Raise("OtherError", EmptyResult))
    /\ UNCHANGED <<variant, params, bucket, check, handle, before,
                   disturbed, external, history, runs>>

\* ---------------------------------------------------------- createBucket
\* The properties the create request carries (the name aside).
CreatePayload(v) ==
    IF v = "plugins"
    THEN {"storage_class", "versioning_enabled", "location"}
    ELSE {"storage_class", "location"}

\* Mutant of CreatedBucket: the wanted versioning is not set on the bucket
\* before it is created.
CreatedBucket_NoVersioning(v, p) ==
    [exists |-> TRUE, storage_class |-> p.storage_class,
     versioning_enabled |-> FALSE,
     location |-> p.location, nonempty |-> FALSE]

\* The bucket the remote system holds after a successful create.
CreatedBucket(v, p) ==
    [exists |-> TRUE, storage_class |-> p.storage_class,
     versioning_enabled |-> IF v = "plugins" THEN p.versioning_enabled
                            ELSE FALSE,
     location |-> p.location, nonempty |-> FALSE]

\* createBucket when the create call succeeds (or, were the project key
\* missing, its early return).  state, storage_class and location of the
\* result are read back from the created bucket.
CreateBucket ==
    /\ pc = "createBucket"
    /\ IF ProjectMissing(params)
       THEN /\ Take(Return(FALSE, "project not defined", result))
            /\ UNCHANGED <<bucket, calls, responses>>
       ELSE /\ ~bucket.exists
            /\ bucket' = CreatedBucket(variant, params)
            /\ responses' = Append(responses, "ok")
            /\ calls' = Append(calls,
                               RemoteCall("create", CreatePayload(variant)))
            /\ Take(Return(TRUE, "",
                           [result EXCEPT
                              !.state = "present",
                              !.storage_class = bucket'.storage_class,
                              !.location = bucket'.location]))
    /\ UNCHANGED <<variant, params, check, handle, before, disturbed,
                   external, history, runs>>

\* storage.Client(project=None) yields a client without a project; the
\* client library may then refuse bucket.create() with ValueError before
\* any request is sent (or it resolves a project from its environment and
\* CreateBucket applies).  The module does not catch ValueError.
CreateBucketNoProject ==
    /\ pc = "createBucket"
    /\ ~ProjectMissing(params)
    /\ params.project = None
    /\ Take(Raise("ValueError", result))
    /\ UNCHANGED <<variant, params, bucket, check, handle, calls, responses,
                   before,
                   disturbed, external, history, runs>>

\* The create call is refused with Conflict: the name is taken, by a bucket
\* the fetch did not see.
CreateBucketConflict ==
    /\ pc = "createBucket"
    /\ ~ProjectMissing(params)
    /\ calls' = Append(calls, RemoteCall("create", CreatePayload(variant)))
    /\ responses' = Append(responses, "Conflict")
    /\ Take(Return(FALSE, "Naming conflict", result))
    /\ UNCHANGED <<variant, params, bucket, check, handle, before,
                   disturbed, external, history, runs>>

\* The create call fails with any other error: uncaught.
CreateBucketError ==
    /\ pc = "createBucket"
    /\ ~ProjectMissing(params)
    /\ calls' = Append(calls, RemoteCall("create", CreatePayload(variant)))
    /\ responses' = Append(responses, "OtherError")
    /\ Take(Raise("OtherError", result))
    /\ UNCHANGED <<variant, params, bucket, check, handle, before,
                   disturbed, external, history, runs>>

\* ---------------------------------------------------------- updateBucket
\* updateBucket up to and including its update() call.  The Bucket object
\* is new, so its storage_class is None and its versioning_enabled False.
\* ok tells whether the remote system accepts the request; keep, whether
\* it keeps the versioning the request leaves out.
UpdateBucketUpdate ==
    /\ pc = "updateBucket"
    /\ IF ProjectMissing(params)
       THEN /\ Take(Return(FALSE, "project not defined", result))
            /\ UNCHANGED <<bucket, calls, responses, handle>>
       ELSE IF NewHandle.storage_class = params.storage_class
               /\ NewHandle.versioning_enabled = params.versioning_enabled
       THEN /\ Take(Return(FALSE, "", result))
            /\ UNCHANGED <<bucket, calls, responses, handle>>
       ELSE IF NewHandle.storage_class # params.storage_class
       THEN /\ calls' = Append(calls, RemoteCall("update", UpdatePayload))
            /\ \E ok \in BOOLEAN, keep \in BOOLEAN :
                 IF ok /\ bucket.exists
                 THEN /\ bucket' = UpdatedBucket(params, bucket, keep)
                      /\ handle' = Loaded(bucket')
                      /\ responses' = Append(responses, "ok")
                      /\ Take(Call("updateBucket_versioning", result))
                 ELSE /\ responses' = Append(responses, Refused(bucket))
                      /\ Take(Raise(Refused(bucket), result))
                      /\ UNCHANGED <<bucket, handle>>
       ELSE /\ handle' = NewHandle
            /\ Take(Call("updateBucket_versioning", result))
            /\ UNCHANGED <<bucket, calls, responses>>
    /\ UNCHANGED <<variant, params, check, before, disturbed, external,
                   history, runs>>

\* The rest of updateBucket: the patch() call when the Bucket object's
\* versioning differs from the wanted one, then the return.
UpdateBucketPatch ==
    /\ pc = "updateBucket_versioning"
    /\ IF handle.versioning_enabled # params.versioning_enabled
       THEN /\ calls' = Append(calls,
                               RemoteCall("patch", {"versioning_enabled"}))
            /\ \E ok \in BOOLEAN :
                 IF ok /\ bucket.exists
                 THEN /\ bucket' = [bucket EXCEPT !.versioning_enabled =
                                       params.versioning_enabled]
                      /\ handle' = Loaded(bucket')
                      /\ responses' = Append(responses, "ok")
                      /\ Take(Return(TRUE, "",
                           [result EXCEPT
                              !.storage_class = handle'.storage_class,
                              !.versioning_enabled =
                                  handle'.versioning_enabled]))
                 ELSE /\ responses' = Append(responses, Refused(bucket))
                      /\ Take(Raise(Refused(bucket), result))
                      /\ UNCHANGED <<bucket, handle>>
       ELSE /\ Take(Return(TRUE, "",
                      [result EXCEPT
                         !.storage_class = handle.storage_class,
                         !.versioning_enabled = handle.versioning_enabled]))
            /\ UNCHANGED <<bucket, calls, responses, handle>>
    /\ UNCHANGED <<variant, params, check, before, disturbed, external,
                   history, runs>>

\* ---------------------------------------------------------- deleteBucket
\* Mutant of DeleteBucketGet: NotFound is not caught.
DeleteBucketGet_NotFoundRaises ==
    /\ pc = "deleteBucket"
    /\ calls' = Append(calls, RemoteCall("get_bucket", {}))
    /\ responses' = Append(responses, Found(bucket))
    /\ IF bucket.exists
       THEN Take(Call("deleteBucket_delete", result))
       ELSE Take(Raise("NotFound", result))
    /\ UNCHANGED <<variant, params, bucket, check, handle, before,
                   disturbed, external, history, runs>>

\* deleteBucket's own get_bucket call: the bucket is found, or NotFound is
\* caught and the handler returns unchanged with state absent.
DeleteBucketGet ==
    /\ pc = "deleteBucket"
    /\ calls' = Append(calls, RemoteCall("get_bucket", {}))
    /\ responses' = Append(responses, Found(bucket))
    /\ IF bucket.exists
       THEN Take(Call("deleteBucket_delete", result))
       ELSE Take(Return(FALSE, "", [result EXCEPT !.state = "absent"]))
    /\ UNCHANGED <<variant, params, bucket, check, handle, before,
                   disturbed, external, history, runs>>

\* deleteBucket's get_bucket call fails with another error: uncaught.
DeleteBucketGetError ==
    /\ pc = "deleteBucket"
    /\ calls' = Append(calls, RemoteCall("get_bucket", {}))
    /\ responses' = Append(responses, "OtherError")
    /\ Take(Raise("OtherError", result))
    /\ UNCHANGED <<variant, params, bucket, check, handle, before,
                   disturbed, external, history, runs>>

\* The delete call answers: NotFound when the bucket is gone by now,
\* Conflict when it holds objects and the delete is not forced, success
\* otherwise (a forced delete removes the objects first).
DeleteBucketDelete ==
    /\ pc = "deleteBucket_delete"
    /\ calls' = Append(calls, RemoteCall("delete", {}))
    /\ IF ~bucket.exists
       THEN /\ responses' = Append(responses, "NotFound")
            /\ Take(Return(FALSE, "", [result EXCEPT !.state = "absent"]))
            /\ UNCHANGED bucket
       ELSE IF ~DeleteForce(params) /\ bucket.nonempty
       THEN /\ responses' = Append(responses, "Conflict")
            /\ Take(DeleteConflict(result))
            /\ UNCHANGED bucket
       ELSE /\ bucket' = NoBucket
            /\ responses' = Append(responses, "ok")
            /\ Take(Return(TRUE, "", [result EXCEPT !.state = "absent"]))
    /\ UNCHANGED <<variant, params, check, handle, before, disturbed,
                   external, history, runs>>

\* Mutant of DeleteBucketDeleteError: the failed delete is tried again.
DeleteBucketDeleteError_Retry ==
    /\ pc = "deleteBucket_delete"
    /\ calls' = Append(calls, RemoteCall("delete", {}))
    /\ responses' = Append(responses, "OtherError")
    /\ UNCHANGED <<variant, params, bucket, pc, check, result, changedState,
                   errorMessage, handle, before, disturbed, external,
                   history, runs>>

\* The delete call fails with any other error: uncaught.
DeleteBucketDeleteError ==
    /\ pc = "deleteBucket_delete"
    /\ calls' = Append(calls, RemoteCall("delete", {}))
    /\ responses' = Append(responses, "OtherError")
    /\ Take(Raise("OtherError", result))
    /\ UNCHANGED <<variant, params, bucket, check, handle, before,
                   disturbed, external, history, runs>>

\* ------------------------------------------------------------ run_module
\* What the module prints: fail_json(msg, **result) carries no changed key,
\* exit_json(changed, **result) carries it.
Output(c, m, r) ==
    IF m # ""
    THEN [failed |-> TRUE, msg |-> m] @@ r
    ELSE [changed |-> c] @@ r

\* The record kept of a finished invocation.
Record(outcome, out) ==
    [check |-> check, before |-> before, after |-> bucket,
     outcome |-> outcome, changedState |-> changedState,
     errorMessage |-> errorMessage, result |-> result, output |-> out,
     calls |-> calls, responses |-> responses, disturbed |-> disturbed]

Finish(rec) ==
    /\ history' = Append(history, rec)
    /\ pc' = "idle"
    /\ check' = FALSE
    /\ result' = EmptyResult
    /\ changedState' = FALSE
    /\ errorMessage' = ""
    /\ handle' = NewHandle
    /\ calls' = <<>>
    /\ responses' = <<>>
    /\ before' = NoBucket
    /\ disturbed' = FALSE
    /\ UNCHANGED <<variant, params, bucket, external, runs>>

\* The handler returned: run_module fails or exits with its triple.
RunModuleExit ==
    /\ pc = "return"
    /\ Finish(Record(IF errorMessage # "" THEN "fail" ELSE "exit",
                     Output(changedState, errorMessage, result)))

\* An exception left the handler: the module ends with a traceback and
\* prints no result.
Uncaught ==
    /\ pc = "raise"
    /\ Finish(Record("crash", [failed |-> TRUE, msg |-> errorMessage]))

\* ------------------------------------------------------- the environment
\* Another actor deletes the bucket, at any moment.
ExternalDelete ==
    /\ bucket.exists
    /\ external < MaxExternal
    /\ pc # "idle" \/ runs < MaxRuns
    /\ bucket' = NoBucket
    /\ external' = external + 1
    /\ disturbed' = TRUE
    /\ UNCHANGED <<variant, params, pc, check, result, changedState,
                   errorMessage, handle, calls, responses, before, history,
                   runs>>

Next ==
    \/ Invoke
    \/ GetBucket
    \/ GetBucketError
    \/ CreateBucket
    \/ CreateBucketNoProject
    \/ CreateBucketConflict
    \/ CreateBucketError
    \/ UpdateBucketUpdate
    \/ UpdateBucketPatch
    \/ DeleteBucketGet
    \/ DeleteBucketGetError
    \/ DeleteBucketDelete
    \/ DeleteBucketDeleteError
    \/ RunModuleExit
    \/ Uncaught
    \/ ExternalDelete

Spec == Init /\ [][Next]_vars

\* ======================================================================
\* Properties
\* ======================================================================
Runs == 1..Len(history)

\* Two consecutive finished invocations, the second started on the remote
\* state the first left, no other actor acting during either.
Pairs ==
    {i \in Runs : /\ i + 1 \in Runs
                  /\ ~history[i].disturbed
                  /\ ~history[i + 1].disturbed
                  /\ history[i + 1].before = history[i].after}

Ops(cs) == {cs[i].op : i \in DOMAIN cs}

\* The remote state differs from what the parameters ask for.
Differs(p, b) ==
    IF p.state = "present"
    THEN \/ ~b.exists
         \/ b.storage_class # p.storage_class
         \/ b.versioning_enabled # p.versioning_enabled
    ELSE b.exists

\* C1: (plugins variant) a check-mode invocation and the apply-mode
\* invocation run next on the same, unmodified remote state return the
\* same `changed` (stated for the pairs in which a project is given and
\* both invocations exit without error).
C1_PreviewApplyChanged ==
    \A i \in Pairs :
        (/\ variant = "plugins" /\ params.project # None
         /\ history[i].check /\ ~history[i + 1].check
         /\ history[i].outcome = "exit"
         /\ history[i + 1].outcome = "exit")
        => history[i].changedState = history[i + 1].changedState

\* C2: (plugins variant) the result attributes a check-mode invocation
\* returns are the same fields with the same values as those of the
\* successful apply-mode invocation run next on the same remote state
\* (stated for the runs in which a project is given).
C2_PreviewApplyAttributes ==
    \A i \in Pairs :
        (/\ variant = "plugins" /\ params.project # None
         /\ history[i].check /\ ~history[i + 1].check
         /\ history[i].outcome = "exit"
         /\ history[i + 1].outcome = "exit")
        => history[i].result = history[i + 1].result

\* C3: in check mode no invocation issues a create, update, patch or
\* delete call; the one remote call it makes is the fetch by name.
C3_CheckModeReadOnly ==
    /\ (pc # "idle" /\ check)
          => calls \in {<<>>, <<RemoteCall("get_bucket", {})>>}
    /\ \A i \in Runs :
          history[i].check
             => /\ history[i].calls = <<RemoteCall("get_bucket", {})>>
                /\ history[i].after = history[i].before
                   \/ history[i].disturbed

\* A check-mode invocation that predicted a change (create, update or
\* delete) has finished.
C3_Witness ==
    \E i \in Runs : /\ history[i].check
                    /\ history[i].changedState
                    /\ history[i].before.exists
                    /\ params.state = "absent"

\* C4: (plugins variant) the same parameters applied twice to a remote
\* system nothing else mutates, the first invocation succeeding and the
\* second getting its answers: the first returns changed=true exactly when
\* the remote state differed from the parameters, the second returns
\* changed=false and issues no mutating call.
C4_IdempotentChanged ==
    \A i \in Pairs :
        (/\ variant = "plugins"
         /\ ~history[i].check /\ ~history[i + 1].check
         /\ history[i].outcome = "exit"
         /\ history[i + 1].outcome # "crash")
        => /\ history[i].changedState
                <=> Differs(params, history[i].before)
           /\ history[i + 1].outcome = "exit"
           /\ ~history[i + 1].changedState
           /\ Ops(history[i + 1].calls) \cap Mutating = {}

\* An update was applied and the next apply found nothing to do.
C4_Witness ==
    \E i \in Pairs :
        /\ variant = "plugins"
        /\ ~history[i].check /\ ~history[i + 1].check
        /\ history[i].outcome = "exit" /\ history[i].changedState
        /\ "update" \in Ops(history[i].calls)
        /\ history[i + 1].outcome = "exit"

\* C5: (plugins variant) the same parameters applied twice to a quiescent
\* remote system return the same result attributes, field for field
\* (stated for the runs in which a project is given and both exit without
\* error).
C5_IdempotentAttributes ==
    \A i \in Pairs :
        (/\ variant = "plugins" /\ params.project # None
         /\ ~history[i].check /\ ~history[i + 1].check
         /\ history[i].outcome = "exit"
         /\ history[i + 1].outcome = "exit")
        => history[i].result = history[i + 1].result

\* C6: apply mode, target absent, the bucket exists and holds objects, no
\* other actor acts and the delete call is answered: without force the
\* invocation fails with the conflict message, changed=false, result state
\* present, and the bucket is still there; with force it exits with
\* changed=true, no error, result state absent, and the bucket is gone.
C6_ForceDeleteGate ==
    \A i \in Runs :
        LET h == history[i] IN
        (/\ params.state = "absent" /\ ~h.check
         /\ h.before.exists /\ h.before.nonempty
         /\ ~h.disturbed
         /\ h.outcome # "crash")
        => IF params.force
           THEN /\ h.outcome = "exit" /\ h.changedState
                /\ h.errorMessage = ""
                /\ h.result.state = "absent"
                /\ ~h.after.exists
           ELSE /\ h.outcome = "fail" /\ ~h.changedState
                /\ h.errorMessage = "Object conflict"
                /\ h.result.state = "present"
                /\ h.after = h.before

\* A delete without force was refused on a bucket that holds objects.
C6_Witness ==
    \E i \in Runs :
        /\ params.state = "absent" /\ ~params.force
        /\ ~history[i].check /\ ~history[i].disturbed
        /\ history[i].before.nonempty
        /\ "delete" \in Ops(history[i].calls)
        /\ history[i].outcome = "fail"

\* C7: target absent and no bucket under the name: in check mode and in
\* apply mode the invocation (its fetch answered) returns changed=false,
\* no error, result state absent, and issues no delete call.
C7_AbsentDeleteNoOp ==
    \A i \in Runs :
        LET h == history[i] IN
        (/\ params.state = "absent"
         /\ ~h.before.exists
         /\ h.outcome # "crash")
        => /\ h.outcome = "exit" /\ ~h.changedState
           /\ h.errorMessage = ""
           /\ h.result.state = "absent"
           /\ "changed" \in DOMAIN h.output /\ ~h.output.changed
           /\ "delete" \notin Ops(h.calls)

\* Both a check-mode and an apply-mode invocation ended on the absent
\* bucket with target absent.
C7_Witness ==
    /\ params.state = "absent"
    /\ \E i, j \in Runs :
          /\ history[i].check /\ ~history[j].check
          /\ ~history[i].before.exists /\ ~history[j].before.exists
          /\ history[i].outcome = "exit" /\ history[j].outcome = "exit"

\* C8: no update or patch request carries location; a bucket that exists
\* before and after an invocation (no other actor having replaced it in
\* between) has kept its location; and with target
\* present, when storage class and versioning of the bucket the invocation
\* observes match the parameters, changed is false and no mutating call is
\* issued, whatever the wanted location.
C8_LocationImmutable ==
    /\ \A k \in DOMAIN calls :
          calls[k].op \in {"update", "patch"}
             => "location" \notin calls[k].fields
    /\ (pc # "idle" /\ ~disturbed /\ before.exists /\ bucket.exists)
          => bucket.location = before.location
    /\ \A i \in Runs :
          LET h == history[i] IN
          /\ \A k \in DOMAIN h.calls :
                h.calls[k].op \in {"update", "patch"}
                   => "location" \notin h.calls[k].fields
          /\ (~h.disturbed /\ h.before.exists /\ h.after.exists)
                => h.after.location = h.before.location
          /\ (/\ params.state = "present"
              /\ h.before.exists /\ ~h.disturbed
              /\ h.before.storage_class = params.storage_class
              /\ h.before.versioning_enabled = params.versioning_enabled
              /\ h.outcome # "crash")
                => /\ ~h.changedState
                   /\ Ops(h.calls) \cap Mutating = {}

\* An update ran on a bucket whose location is not the wanted one, and
\* another invocation found only the location different.
C8_Witness ==
    /\ params.state = "present"
    /\ \E i, j \in Runs :
          /\ history[i].before.exists /\ ~history[i].disturbed
          /\ history[i].before.location # params.location
          /\ "update" \in Ops(history[i].calls)
          /\ history[i].outcome = "exit"
          /\ history[i].after.location = history[i].before.location
          /\ history[j].before.exists /\ ~history[j].disturbed
          /\ history[j].before.location # params.location
          /\ history[j].before.storage_class = params.storage_class
          /\ history[j].before.versioning_enabled
                = params.versioning_enabled
          /\ history[j].outcome = "exit"

\* C9: (plugins variant) apply mode, target present, no bucket under the
\* name, project left at its default None, the fetch answered: the
\* invocation fails with 'project not defined', changed=false, and no
\* create call is issued.
C9_CreateRequiresProject ==
    \A i \in Runs :
        LET h == history[i] IN
        (/\ variant = "plugins"
         /\ params.state = "present" /\ ~h.check
         /\ params.project = None
         /\ ~h.before.exists
         /\ h.errorMessage # "OtherError")
        => /\ h.outcome = "fail"
           /\ h.errorMessage = "project not defined"
           /\ ~h.changedState
           /\ "create" \notin Ops(h.calls)

\* C10: a handler that returns an error message returns changed=false,
\* and no failing end of an invocation reports changed=true.
C10_NoChangedWithError ==
    /\ (pc = "return" /\ errorMessage # "") => ~changedState
    /\ \A i \in Runs :
          LET h == history[i] IN
          /\ h.errorMessage # "" => ~h.changedState
          /\ h.outcome \in {"fail", "crash"}
                => "changed" \notin DOMAIN h.output
          /\ h.outcome = "exit"
                => /\ h.errorMessage = ""
                   /\ h.output.changed = h.changedState

\* An invocation has failed with a message a handler returned after its
\* create or delete call was refused.
C10_Witness ==
    \E i \in Runs :
        /\ history[i].outcome = "fail"
        /\ history[i].errorMessage \in {"Object conflict", "Naming conflict"}
        /\ Ops(history[i].calls) \cap Mutating # {}

\* C11: (plugins variant) apply mode, storage class and versioning both
\* differ, the update() call succeeds and the patch() call fails: the
\* invocation ends with a result that carries changed=true and the error,
\* storage_class at the wanted value and versioning_enabled at the old one.
C11_PartialUpdateReported ==
    \A i \in Runs :
        LET h == history[i] IN
        (/\ variant = "plugins" /\ ~h.check /\ ~h.disturbed
         /\ params.project # None
         /\ params.state = "present" /\ h.before.exists
         /\ h.before.storage_class # params.storage_class
         /\ h.before.versioning_enabled # params.versioning_enabled
         /\ Len(h.calls) = 3
         /\ h.calls[2].op = "update" /\ h.responses[2] = "ok"
         /\ h.calls[3].op = "patch" /\ h.responses[3] = "OtherError")
        => /\ h.outcome # "crash"
           /\ h.changedState
           /\ h.errorMessage # ""
           /\ h.result.storage_class = params.storage_class
           /\ h.result.versioning_enabled = h.before.versioning_enabled

\* C12: when the first fetch of the bucket fails with an error other than
\* NotFound, in check mode and in apply mode the invocation fails with that
\* error: it reports no changed and no success, and issues no further call.
C12_FetchFailurePropagates ==
    /\ (pc # "idle" /\ Len(responses) > 0 /\ responses[1] = "OtherError")
          => /\ pc = "raise"
             /\ errorMessage = "OtherError"
             /\ Len(calls) = 1
    /\ \A i \in Runs :
          LET h == history[i] IN
          (Len(h.responses) > 0 /\ h.responses[1] = "OtherError")
          => /\ h.outcome = "crash"
             /\ h.errorMessage = "OtherError"
             /\ h.output.failed /\ h.output.msg = "OtherError"
             /\ "changed" \notin DOMAIN h.output
             /\ Len(h.calls) = 1
             /\ Ops(h.calls) \cap Mutating = {}

\* The fetch has failed in a check-mode run and in an apply-mode run.
C12_Witness ==
    \E i, j \in Runs :
        /\ history[i].check /\ ~history[j].check
        /\ history[i].responses = <<"OtherError">>
        /\ history[j].responses = <<"OtherError">>
        /\ history[i].outcome = "crash" /\ history[j].outcome = "crash"

\* C13: (plugins variant) target present and the bucket the invocation
\* observes has the wanted storage class and versioning: in check mode and
\* in apply mode the invocation exits with changed=false and no error,
\* issues no mutating call, and returns the observed attributes.
C13_NoOpOnMatch ==
    \A i \in Runs :
        LET h == history[i] IN
        (/\ variant = "plugins" /\ ~h.disturbed
         /\ params.state = "present" /\ h.before.exists
         /\ h.before.storage_class = params.storage_class
         /\ h.before.versioning_enabled = params.versioning_enabled
         /\ h.responses[1] # "OtherError")
        => /\ h.outcome = "exit" /\ h.errorMessage = ""
           /\ ~h.changedState /\ ~h.output.changed
           /\ h.calls = <<RemoteCall("get_bucket", {})>>
           /\ h.after = h.before
           /\ h.result = [name |-> params.name, state |-> "present",
                          storage_class |-> h.before.storage_class,
                          versioning_enabled |-> h.before.versioning_enabled,
                          location |-> h.before.location]

\* A check-mode and an apply-mode run both found the bucket matching, its
\* location not being the wanted one.
C13_Witness ==
    /\ variant = "plugins" /\ params.state = "present"
    /\ \E i, j \in Runs :
          /\ history[i].check /\ ~history[j].check
          /\ \A k \in {i, j} :
                /\ history[k].before.exists /\ ~history[k].disturbed
                /\ history[k].before.storage_class = params.storage_class
                /\ history[k].before.versioning_enabled
                      = params.versioning_enabled
                /\ history[k].before.location # params.location
                /\ history[k].outcome = "exit"

\* C14: (plugins variant) apply mode, target present, a project given, no
\* bucket under the name (the fetch answers NotFound): exactly one create
\* call is issued, carrying storage class, location and versioning; when it
\* succeeds the remote bucket has the wanted values and the invocation
\* exits with changed=true, state present, and the storage class and
\* location the remote system holds.
C14_CreateOnAbsent ==
    \A i \in Runs :
        LET h == history[i]
            creates == {k \in DOMAIN h.calls : h.calls[k].op = "create"}
        IN
        (/\ variant = "plugins" /\ ~h.check
         /\ params.state = "present" /\ params.project # None
         /\ h.responses[1] = "NotFound")
        => /\ Cardinality(creates) = 1
           /\ \A k \in creates :
                 /\ h.calls[k].fields
                       = {"storage_class", "location", "versioning_enabled"}
                 /\ (h.responses[k] = "ok" /\ ~h.disturbed)
                       => /\ h.after.exists
                          /\ h.after.storage_class = params.storage_class
                          /\ h.after.location = params.location
                          /\ h.after.versioning_enabled
                                = params.versioning_enabled
                          /\ h.outcome = "exit" /\ h.changedState
                          /\ h.output.changed
                          /\ h.result.state = "present"
                          /\ h.result.storage_class = h.after.storage_class
                          /\ h.result.location = h.after.location

\* A bucket with versioning on was created.
C14_Witness ==
    \E i \in Runs :
        /\ variant = "plugins" /\ ~history[i].check
        /\ params.state = "present" /\ params.project # None
        /\ params.versioning_enabled
        /\ history[i].responses = <<"NotFound", "ok">>
        /\ history[i].outcome = "exit"
        /\ history[i].after.exists

\* C15: (plugins variant) check mode, target present, the bucket exists:
\* changed is true exactly when the storage class or the versioning of the
\* observed bucket differs from the wanted one.
C15_PreviewUpdateUsesOr ==
    \A i \in Runs :
        LET h == history[i] IN
        (/\ variant = "plugins" /\ h.check /\ ~h.disturbed
         /\ params.state = "present" /\ h.before.exists
         /\ h.responses[1] = "ok")
        => (h.changedState
               <=> \/ h.before.storage_class # params.storage_class
                   \/ h.before.versioning_enabled
                         # params.versioning_enabled)

\* C16: (plugins variant) apply mode, target present, the bucket exists and
\* differs in storage class or versioning, every call is answered: an
\* update() call (storage class) is issued exactly when the storage class
\* differs, a patch() call (versioning) exactly when the versioning
\* differs, and the invocation exits with changed=true and both fields of
\* the result at the wanted values.
C16_UpdateTouchesDiffedFields ==
    \A i \in Runs :
        LET h == history[i] IN
        (/\ variant = "plugins" /\ ~h.check /\ ~h.disturbed
         /\ params.state = "present" /\ params.project # None
         /\ h.before.exists
         /\ \/ h.before.storage_class # params.storage_class
            \/ h.before.versioning_enabled # params.versioning_enabled
         /\ \A k \in DOMAIN h.responses : h.responses[k] = "ok")
        => /\ "update" \in Ops(h.calls)
                <=> h.before.storage_class # params.storage_class
           /\ "patch" \in Ops(h.calls)
                <=> h.before.versioning_enabled # params.versioning_enabled
           /\ h.outcome = "exit" /\ h.changedState
           /\ h.result.storage_class = params.storage_class
           /\ h.result.versioning_enabled = params.versioning_enabled

CallCount(cs, op) == Cardinality({k \in DOMAIN cs : cs[k].op = op})

\* No call follows a call that was refused or failed.
NoRetry(cs, rs) ==
    \A k \in DOMAIN rs :
        rs[k] \in {"OtherError", "Conflict"} => k = Len(cs)

\* C17 (as claimed): in one invocation each kind of remote call - fetch by
\* name, create, storage-class update, versioning update, delete - is
\* issued at most once, and no call follows a failed one.
C17_EachCallOnce ==
    /\ \A op \in {"get_bucket"} \cup Mutating : CallCount(calls, op) <= 1
    /\ NoRetry(calls, responses)
    /\ \A i \in Runs :
          /\ \A op \in {"get_bucket"} \cup Mutating :
                CallCount(history[i].calls, op) <= 1
          /\ NoRetry(history[i].calls, history[i].responses)

\* A sequence of calls in which create, update, patch and delete occur at
\* most once each and the fetch at most twice, the second fetch only in an
\* apply-mode run with target absent, right after the first one.
CallsOnce(cs, rs, chk) ==
    /\ \A op \in Mutating : CallCount(cs, op) <= 1
    /\ CallCount(cs, "get_bucket") <= 2
    /\ CallCount(cs, "get_bucket") = 2
          => /\ ~chk /\ params.state = "absent"
             /\ cs[1].op = "get_bucket" /\ cs[2].op = "get_bucket"
             /\ rs[1] = "ok"
    /\ NoRetry(cs, rs)

\* C17 (amended): create, storage-class update, versioning update and
\* delete are each issued at most once per invocation and no call follows a
\* failed one; the fetch by name is issued once, and a second time only in
\* the apply-mode delete branch, where deleteBucket fetches the bucket
\* again before deleting it.
C17_EachMutationOnce ==
    /\ CallsOnce(calls, responses, check)
    /\ \A i \in Runs :
          CallsOnce(history[i].calls, history[i].responses, history[i].check)

\* A delete run has fetched the bucket twice and deleted it, and a run has
\* ended on a failed call.
C17_Witness ==
    \E i \in Runs :
        /\ CallCount(history[i].calls, "get_bucket") = 2
        /\ CallCount(history[i].calls, "delete") = 1
        /\ history[i].responses[3] \in {"OtherError", "Conflict"}

\* C18: apply mode, target absent, the first fetch found the bucket and
\* another actor removed it before the delete took effect (deleteBucket's
\* own fetch or its delete call is answered NotFound): the invocation exits
\* with changed=false, no error and result state absent.
C18_DeleteRace ==
    \A i \in Runs :
        LET h == history[i] IN
        (/\ params.state = "absent" /\ ~h.check
         /\ h.responses[1] = "ok"
         /\ Len(h.responses) > 1
         /\ h.responses[Len(h.responses)] = "NotFound")
        => /\ h.disturbed
           /\ h.outcome = "exit"
           /\ ~h.changedState /\ h.errorMessage = ""
           /\ ~h.output.changed
           /\ h.result.state = "absent"
           /\ "failed" \notin DOMAIN h.output

\* The bucket was removed between the first fetch and deleteBucket's
\* fetch in one run.
C18_Witness ==
    \E i \in Runs :
        /\ params.state = "absent" /\ ~history[i].check
        /\ history[i].before.exists /\ history[i].disturbed
        /\ history[i].responses = <<"ok", "NotFound">>
        /\ history[i].outcome = "exit"

\* C19: (legacy variant) target present, the bucket exists with another
\* storage class than the wanted one: an apply-mode invocation issues a
\* storage-class update and exits with changed=true and the wanted storage
\* class in its result; a check-mode invocation returns changed=true.
C19_LegacyUpdate ==
    \A i \in Runs :
        LET h == history[i] IN
        (/\ variant = "legacy" /\ ~h.disturbed
         /\ params.state = "present" /\ params.project # None
         /\ h.before.exists
         /\ h.before.storage_class # params.storage_class
         /\ h.responses[1] = "ok")
        => IF h.check
           THEN h.outcome = "exit" /\ h.changedState
           ELSE /\ "update" \in Ops(h.calls)
                /\ h.outcome = "exit" /\ h.changedState
                /\ h.result.storage_class = params.storage_class

\* C20: an invocation with target present never issues a delete call, and
\* an invocation with target absent never issues a create, update or patch
\* call, whatever the remote state, the mode and the errors.
C20_TargetBoundsMutation ==
    LET Allowed == IF params.state = "present"
                   THEN {"get_bucket", "create", "update", "patch"}
                   ELSE {"get_bucket", "delete"}
    IN /\ Ops(calls) \subseteq Allowed
       /\ \A i \in Runs : Ops(history[i].calls) \subseteq Allowed

\* With the same target one run has mutated the bucket and a later run
\* has ended on an error.
C20_Witness ==
    \E i, j \in Runs :
        /\ Ops(history[i].calls) \cap Mutating # {}
        /\ history[i].outcome = "exit" /\ history[i].changedState
        /\ history[j].outcome \in {"fail", "crash"}

\* C21: (plugins variant) an apply-mode invocation that exits without
\* error, no other actor acting during it, leaves the remote state as
\* wanted - target present: the bucket exists with the wanted storage
\* class and versioning; target absent: no bucket - and the attributes it
\* returns (state, storage_class, location, versioning_enabled) are those
\* of that remote state.
C21_ConvergesAfterApply ==
    \A i \in Runs :
        LET h == history[i] IN
        (/\ variant = "plugins" /\ ~h.check /\ ~h.disturbed
         /\ params.project # None
         /\ h.outcome = "exit")
        => IF params.state = "present"
           THEN /\ h.after.exists
                /\ h.after.storage_class = params.storage_class
                /\ h.after.versioning_enabled = params.versioning_enabled
                /\ h.result.state = "present"
                /\ h.result.storage_class = h.after.storage_class
                /\ h.result.location = h.after.location
                /\ "versioning_enabled" \in DOMAIN h.result
                /\ h.result.versioning_enabled = h.after.versioning_enabled
           ELSE /\ ~h.after.exists
                /\ h.result.state = "absent"

====
